---- MODULE Spec2Model ----
(***************************************************************************)
(* Job scheduler / ETA estimator (app/routers/jobs.py, app/services/eta.py)*)
(* and Beta-Bernoulli experiment engine (app/routers/ab.py,                *)
(* app/services/ab_logic.py) as state machines over the rows of the store. *)
(*                                                                         *)
(* Arithmetic: a target multiplier is held in hundredths (0.80 -> 80), a   *)
(* lane throughput in tenths (1.6 -> 16), so minutes are held in           *)
(* hundredths of a minute and every quotient is exact; the binary          *)
(* representation error of the source's floats is not modelled.            *)
(* Posterior means and allocation shares are exact rationals, held as      *)
(* pairs <<numerator, denominator>>.                                       *)
(***************************************************************************)
EXTENDS Integers, Sequences, FiniteSets, TLC

\* ---------------------------------------------------------------- bounds
MaxJobs == 2
MaxTransitions == 1
MaxExperiments == 2
MaxDeltas == 4

\* ---------------------------------------------------------------- values
NULL == 0 - 1
NoKey == "None"
NoPlan == [id |-> "none", lane |-> NULL, max_input_minutes |-> NULL, target_multiplier |-> NULL]
DemoOrg == "demo-org"

\* Rows of the plans table. express is the row of the spec's scenario; the
\* other two rows carry the remaining lanes. target_multiplier in hundredths.
Plans ==
  [ express  |-> [id |-> "express",  lane |-> 0, max_input_minutes |-> 30, target_multiplier |-> 80],
    priority |-> [id |-> "priority", lane |-> 1, max_input_minutes |-> 20, target_multiplier |-> 120],
    standard |-> [id |-> "standard", lane |-> 2, max_input_minutes |-> 10, target_multiplier |-> 150] ]

\* Request inputs.
PlanInputs == {"express", "standard", "bogus"}
MinuteInputs == {0, 1, 10, 11}
KeyInputs == {NoKey, "k1"}

JobState == {"CREATED", "QUEUED", "INGESTING", "TRANSCRIBING", "ANALYZING", "EDITING",
             "RENDERING", "UPLOADING", "COMPLETED", "FAILED", "TIMED_OUT", "CANCELED"}

\* The states the estimator's query selects.
ACTIVE_STATES == {"QUEUED", "INGESTING", "TRANSCRIBING", "ANALYZING", "EDITING", "RENDERING"}

\* Throughput per lane, in tenths; lanes outside the map fall back to 1.0.
THROUGHPUT(lane) ==
  IF lane = 0 THEN 16 ELSE IF lane = 1 THEN 12 ELSE 10

lane_str(lane) ==
  IF lane = 0 THEN "P0" ELSE IF lane = 1 THEN "P1" ELSE "P2"

VARIABLES
  jobs,     \* the jobs table: a sequence of rows, a row's id is its index
  events,   \* the job_events table, per job id the sequence of logged states
  audits,   \* the job_sla_audit table: a sequence of rows, keyed by job_id
  now,      \* the database clock, as last read by an insert
  resp,     \* the response of the last request
  calls,    \* the POST /jobs requests in flight, per connection
  experiments,  \* the experiments table, a row's id is its index
  variants,     \* the variants table, a row's id is its index
  stats,        \* the variant_stats table, keyed like variants
  ingests,      \* the metrics requests in flight, per connection
  acked         \* per variant, the deltas of the metrics requests that completed

abVars == <<experiments, variants, stats, ingests, acked>>

vars == <<jobs, events, audits, now, resp, calls, experiments, variants, stats, ingests, acked>>

\* ------------------------------------------------------------ estimator
\* Variant: arrival order alone decides, the lane is ignored.
ahead_fifo(row, current) == row.created_at < current.created_at

\* Variant: an equal created_at counts as ahead, so a job is ahead of itself.
ahead_inclusive(row, current) ==
  (row.lane < current.lane)
    \/ (row.lane = current.lane /\ row.created_at <= current.created_at)

\* The tie-break of the estimator's loop: row is ahead of current.
ahead(row, current) ==
  (row.lane < current.lane)
    \/ (row.lane = current.lane /\ row.created_at < current.created_at)

RECURSIVE SumAhead(_, _, _)
SumAhead(rows, current, i) ==
  IF i > Len(rows) THEN 0
  ELSE (IF rows[i].state \in ACTIVE_STATES /\ ahead(rows[i], current)
          THEN rows[i].input_minutes * Plans[rows[i].plan_id].target_multiplier
          ELSE 0)
       + SumAhead(rows, current, i + 1)

\* Hundredths of a minute queued ahead of current in the table js.
queue_minutes_ahead(js, current) == SumAhead(js, current, 1)

\* n/d rounded to the nearest integer, ties to the even one (Python's round).
RoundHalfEven(n, d) ==
  LET f == n \div d
      r == n % d
  IN  IF 2 * r < d THEN f
      ELSE IF 2 * r > d THEN f + 1
      ELSE IF f % 2 = 0 THEN f ELSE f + 1

\* Variant: minutes rounded to a whole minute before the conversion to seconds.
compute_eta_whole_minutes(js, job) ==
  LET q_ahead   == queue_minutes_ahead(js, job)
      exp_min   == job.input_minutes * Plans[job.plan_id].target_multiplier
      effective == THROUGHPUT(job.lane)
  IN  60 * RoundHalfEven((q_ahead * 10) + (exp_min * effective), 100 * effective)

\* int(((q_ahead / effective) + exp_min) * 60), truncated toward zero.
compute_eta_seconds(js, job) ==
  LET q_ahead   == queue_minutes_ahead(js, job)
      exp_min   == job.input_minutes * Plans[job.plan_id].target_multiplier
      effective == THROUGHPUT(job.lane)
  IN  ((q_ahead * 600) + (exp_min * 60 * effective)) \div (100 * effective)

\* ------------------------------------------------------------- requests
\* The clock values an insert can read: now() does not run backwards, and two
\* inserts can read the same value.
Arrivals == {now, now + 1}

PlanLookup(p) == IF p \in DOMAIN Plans THEN Plans[p] ELSE NoPlan

\* Variant: the ceiling itself is refused.
InvalidMinutes_exclusive(im, plan) == im <= 0 \/ im >= plan.max_input_minutes

\* The admission test on inputMinutes.
InvalidMinutes(im, plan) == im <= 0 \/ im > plan.max_input_minutes

\* Python truthiness of an Optional[str]: None and "" are both false.
Truthy(key) == key # NoKey /\ key # ""

\* The rows the duplicate lookup matches.
DupRows(js, org, key) ==
  {i \in 1..Len(js) : js[i].org_id = org /\ js[i].idempotency_key = key}

\* A response, with the request's plan, inputMinutes and idempotencyKey.
JobOut(op, status, req, jobId, state, eta, lane) ==
  [op |-> op, status |-> status, plan |-> req[1], inputMinutes |-> req[2], key |-> req[3],
   jobId |-> jobId, state |-> state, etaSeconds |-> eta, lane |-> lane]

NoReq == <<"none", 0, NoKey>>

Reject(op, status, req, jobId) == JobOut(op, status, req, jobId, "none", NULL, "none")

\* Variant: the insert leaves state to the column default.
NewJob_default_state(org, im, plan, key, t) ==
  [org_id |-> org, input_minutes |-> im, plan_id |-> plan.id, lane |-> plan.lane,
   state |-> "CREATED", created_at |-> t, eta_seconds |-> NULL, idempotency_key |-> key]

\* The row the insert writes; eta_seconds is written by the later update.
NewJob(org, im, plan, key, t) ==
  [org_id |-> org, input_minutes |-> im, plan_id |-> plan.id, lane |-> plan.lane,
   state |-> "QUEUED", created_at |-> t, eta_seconds |-> NULL, idempotency_key |-> key]

\* The ETA a duplicate is answered with.
DupEta(js, d) ==
  IF js[d].eta_seconds # NULL THEN js[d].eta_seconds ELSE compute_eta_seconds(js, js[d])

\* POST /jobs, run to completion without interleaving; an insert reads clock t.
create_job(p, im, key, t) ==
  LET plan == PlanLookup(p)
      dup  == DupRows(jobs, DemoOrg, key)
      req  == <<p, im, key>>
  IN
  IF plan = NoPlan THEN
    /\ resp' = Reject("submit", "UnknownPlan", req, 0)
    /\ UNCHANGED <<jobs, events, now>>
  ELSE IF InvalidMinutes(im, plan) THEN
    /\ resp' = Reject("submit", "InvalidInput", req, 0)
    /\ UNCHANGED <<jobs, events, now>>
  ELSE IF Truthy(key) /\ Cardinality(dup) > 1 THEN
    /\ resp' = Reject("submit", "MultipleResultsFound", req, 0)
    /\ UNCHANGED <<jobs, events, now>>
  ELSE IF Truthy(key) /\ dup # {} THEN
    LET d == CHOOSE i \in dup : TRUE
    IN /\ resp' = JobOut("submit", "duplicate", req, d, jobs[d].state, DupEta(jobs, d),
                         lane_str(jobs[d].lane))
       /\ UNCHANGED <<jobs, events, now>>
  ELSE
    /\ Len(jobs) < MaxJobs
    /\ now' = t
    /\ LET job_id   == Len(jobs) + 1
           inserted == Append(jobs, NewJob(DemoOrg, im, plan, key, t))
           eta      == compute_eta_seconds(inserted, inserted[job_id])
       IN /\ jobs' = [inserted EXCEPT ![job_id].eta_seconds = eta]
          /\ events' = Append(events, <<"QUEUED">>)
          /\ resp' = JobOut("submit", "created", req, job_id, "QUEUED", eta, lane_str(plan.lane))

Submit ==
  /\ \E p \in PlanInputs, im \in MinuteInputs, key \in KeyInputs, t \in Arrivals :
       create_job(p, im, key, t)
  /\ UNCHANGED <<calls, abVars, audits>>

\* The same handler on valid requests that carry no idempotency key.
LifeInputs == {<<"express", 10>>, <<"priority", 20>>, <<"standard", 10>>}

SubmitLife ==
  /\ \E in \in LifeInputs, t \in Arrivals :
       create_job(in[1], in[2], NoKey, t)
  /\ UNCHANGED <<calls, abVars, audits>>

\* The same handler on valid requests that differ in the idempotency key.
IdemInputs == {<<"express", 10>>, <<"priority", 20>>}
IdemKeys == {NoKey, "", "k1", "k2"}

SubmitIdem ==
  /\ \E in \in IdemInputs, key \in IdemKeys, t \in Arrivals :
       create_job(in[1], in[2], key, t)
  /\ UNCHANGED <<calls, abVars, audits>>

\* The states for which GET /jobs/{job_id} never computes an ETA.
GetJobFrozen == {"COMPLETED", "FAILED", "CANCELED"}

\* GET /jobs/{job_id}
get_job(job_id) ==
  /\ IF job_id \notin 1..Len(jobs) THEN
       resp' = Reject("getJob", "JobNotFound", NoReq, job_id)
     ELSE
       LET job == jobs[job_id]
           eta == IF job.state \notin GetJobFrozen /\ job.eta_seconds = NULL
                  THEN compute_eta_seconds(jobs, job)
                  ELSE job.eta_seconds
       IN resp' = JobOut("getJob", "ok", NoReq, job_id, job.state, eta, lane_str(job.lane))
  /\ UNCHANGED <<jobs, events, now>>

GetJob ==
  /\ \E job_id \in 1..(MaxJobs + 1) : get_job(job_id)
  /\ UNCHANGED <<calls, abVars, audits>>

\* --------------------------------------------- POST /jobs, interleaved
\* The same handler as steps of concurrent requests, one per connection. A
\* statement sees the rows committed before it; the handler commits after the
\* inserts (line 43) and after the update of eta_seconds (line 47).
Conns == {"c1", "c2"}

Idle == [pc |-> "idle", req |-> NoReq, t |-> 0, job_id |-> 0, eta |-> NULL,
         out |-> [op |-> "none"]]

RaceInputs == {<<"express", 10>>, <<"priority", 20>>}
RaceKeys == {"k1", "k2"}

\* Lines 29-39: plan lookup, validation, duplicate lookup.
RaceLookup(c) ==
  /\ calls[c].pc \in {"idle", "done"}
  /\ \E in \in RaceInputs, key \in RaceKeys, t \in Arrivals :
       LET plan == PlanLookup(in[1])
           dup  == DupRows(jobs, DemoOrg, key)
           req  == <<in[1], in[2], key>>
           done(out) == [Idle EXCEPT !.pc = "done", !.req = req, !.out = out]
           proceed == /\ plan # NoPlan
                      /\ ~InvalidMinutes(in[2], plan)
                      /\ ~(Truthy(key) /\ dup # {})
       IN
       /\ now' = IF proceed THEN t ELSE now
       /\ calls' = [calls EXCEPT ![c] =
            IF plan = NoPlan THEN done(Reject("submit", "UnknownPlan", req, 0))
            ELSE IF InvalidMinutes(in[2], plan) THEN done(Reject("submit", "InvalidInput", req, 0))
            ELSE IF Truthy(key) /\ Cardinality(dup) > 1
              THEN done(Reject("submit", "MultipleResultsFound", req, 0))
            ELSE IF Truthy(key) /\ dup # {}
              THEN LET d == CHOOSE i \in dup : TRUE
                   IN done(JobOut("submit", "duplicate", req, d, jobs[d].state,
                                  DupEta(jobs, d), lane_str(jobs[d].lane)))
            ELSE [Idle EXCEPT !.pc = "insert", !.req = req, !.t = t]]
  /\ UNCHANGED <<jobs, events, resp, abVars, audits>>

\* Lines 40-43: insert the Job and its QUEUED event, commit.
RaceInsert(c) ==
  /\ calls[c].pc = "insert"
  /\ Len(jobs) < MaxJobs
  /\ LET req == calls[c].req
     IN jobs' = Append(jobs, NewJob(DemoOrg, req[2], PlanLookup(req[1]), req[3], calls[c].t))
  /\ events' = Append(events, <<"QUEUED">>)
  /\ calls' = [calls EXCEPT ![c].pc = "eta", ![c].job_id = Len(jobs) + 1]
  /\ UNCHANGED <<now, resp, abVars, audits>>

\* Lines 44-45: read the Job back and compute its ETA.
RaceEta(c) ==
  /\ calls[c].pc = "eta"
  /\ calls' = [calls EXCEPT ![c].pc = "store",
                            ![c].eta = compute_eta_seconds(jobs, jobs[calls[c].job_id])]
  /\ UNCHANGED <<jobs, events, now, resp, abVars, audits>>

\* Lines 46-48: store the ETA, commit, answer.
RaceStore(c) ==
  /\ calls[c].pc = "store"
  /\ jobs' = [jobs EXCEPT ![calls[c].job_id].eta_seconds = calls[c].eta]
  /\ calls' = [calls EXCEPT ![c].pc = "done",
                            ![c].out = JobOut("submit", "created", calls[c].req, calls[c].job_id,
                                              "QUEUED", calls[c].eta,
                                              lane_str(jobs[calls[c].job_id].lane))]
  /\ UNCHANGED <<events, now, resp, abVars, audits>>

\* ---------------------------------------------------- experiment engine
TargetMetrics == {"CTR", "Watch3s", "Watch30s"}

\* Request inputs of POST /ab/experiments.
MetricInputs == {"CTR", "Watch3s"}
MinImpressionsInputs == {3}
MinRuntimeInputs == {3600}
VariantCountInputs == {2}
\* The variants list is not validated: any length is taken.
AnyCountInputs == {1, 2}

\* The counter deltas of one metrics item.
Delta(imp, clk, w3, w30) ==
  [impressionsDelta |-> imp, clicksDelta |-> clk, watch3sDelta |-> w3, watch30sDelta |-> w30]

DeltaInputs == {Delta(2, 1, 0, 0), Delta(1, 0, 1, 1), Delta(0, 1, 2, 0)}

Item(vid, delta) == [variantId |-> vid, delta |-> delta]

ItemInputs == {Item(vid, dl) : vid \in 1..(Len(variants) + 1), dl \in DeltaInputs}

\* The batches: one item, or the same item twice.
BatchInputs == {<<it>> : it \in ItemInputs} \cup {<<it, it>> : it \in ItemInputs}

ZeroCounters == [impressions |-> 0, clicks |-> 0, watch3s |-> 0, watch30s |-> 0]

\* The variant rows of a new experiment; state is left to the column default.
NewVariants(exp_id, n) ==
  [i \in 1..n |-> [experiment_id |-> exp_id, index |-> i - 1, state |-> "DRAFT"]]

\* The stats rows of a new experiment.
NewStats(n) ==
  [i \in 1..n |-> [impressions |-> 0, clicks |-> 0, watch3s |-> 0, watch30s |-> 0,
                   alpha |-> 1, beta |-> 1]]

AbOut(op, status, exp_id) == [op |-> op, status |-> status, experimentId |-> exp_id]

\* POST /ab/experiments
create_experiment(jobId, targetMetric, minImpressions, minRuntimeSeconds, n) ==
  IF jobId \notin 1..Len(jobs) THEN
    /\ resp' = AbOut("createExperiment", "JobNotFound", 0)
    /\ UNCHANGED <<experiments, variants, stats, acked>>
  ELSE
    /\ Len(experiments) < MaxExperiments
    /\ LET exp_id == Len(experiments) + 1
       IN /\ experiments' = Append(experiments,
               [job_id |-> jobId, org_id |-> jobs[jobId].org_id, target_metric |-> targetMetric,
                min_impressions |-> minImpressions,
                min_runtime_seconds |-> minRuntimeSeconds, prior_alpha |-> 1, prior_beta |-> 1,
                state |-> "RUNNING", created_at |-> now])
          /\ variants' = variants \o NewVariants(exp_id, n)
          /\ stats' = stats \o NewStats(n)
          /\ acked' = acked \o [i \in 1..n |-> ZeroCounters]
          /\ resp' = AbOut("createExperiment", "created", exp_id)

CreateExperiment ==
  /\ \E jobId \in 1..(MaxJobs + 1), m \in MetricInputs, mi \in MinImpressionsInputs,
        mr \in MinRuntimeInputs, n \in VariantCountInputs :
       create_experiment(jobId, m, mi, mr, n)
  /\ UNCHANGED <<jobs, events, audits, now, calls, ingests>>

Max(a, b) == IF a >= b THEN a ELSE b

\* The counter a target metric selects.
successes(metric, st) ==
  IF metric = "CTR" THEN st.clicks ELSE IF metric = "Watch3s" THEN st.watch3s ELSE st.watch30s

\* The delta a target metric selects.
successes_now(metric, dl) ==
  IF metric = "CTR" THEN dl.clicksDelta
  ELSE IF metric = "Watch3s" THEN dl.watch3sDelta ELSE dl.watch30sDelta

\* Lines 68-75: the values the update writes, from the row st that was read.
UpdatedStat(exp, st, dl) ==
  LET failures == (st.impressions + dl.impressionsDelta)
                    - (successes(exp.target_metric, st) + successes_now(exp.target_metric, dl))
  IN  [impressions |-> st.impressions + dl.impressionsDelta,
       clicks      |-> st.clicks + dl.clicksDelta,
       watch3s     |-> st.watch3s + dl.watch3sDelta,
       watch30s    |-> st.watch30s + dl.watch30sDelta,
       alpha       |-> exp.prior_alpha
                         + successes(exp.target_metric, st) + successes_now(exp.target_metric, dl),
       beta        |-> exp.prior_beta + Max(failures, 0)]

AddDelta(c, dl) ==
  [impressions |-> c.impressions + dl.impressionsDelta,
   clicks      |-> c.clicks + dl.clicksDelta,
   watch3s     |-> c.watch3s + dl.watch3sDelta,
   watch30s    |-> c.watch30s + dl.watch30sDelta]

\* The loop leaving at the first item whose variantId has no stats row.
RECURSIVE ApplyItems_break(_, _, _, _)
ApplyItems_break(exp, sts, items, i) ==
  IF i > Len(items) THEN sts
  ELSE LET vid == items[i].variantId
       IN  IF vid \notin 1..Len(sts) THEN sts
           ELSE ApplyItems_break(exp, [sts EXCEPT ![vid] = UpdatedStat(exp, sts[vid], items[i].delta)],
                                 items, i + 1)

\* Lines 64-75: the loop over the items, each reading the row as the items
\* before it left it; an item whose variantId has no stats row is skipped.
RECURSIVE ApplyItems(_, _, _, _)
ApplyItems(exp, sts, items, i) ==
  IF i > Len(items) THEN sts
  ELSE LET vid == items[i].variantId
       IN  IF vid \notin 1..Len(sts) THEN ApplyItems(exp, sts, items, i + 1)
           ELSE ApplyItems(exp, [sts EXCEPT ![vid] = UpdatedStat(exp, sts[vid], items[i].delta)],
                           items, i + 1)

RECURSIVE AckItems(_, _, _)
AckItems(ack, items, i) ==
  IF i > Len(items) THEN ack
  ELSE LET vid == items[i].variantId
       IN  IF vid \notin 1..Len(ack) THEN AckItems(ack, items, i + 1)
           ELSE AckItems([ack EXCEPT ![vid] = AddDelta(ack[vid], items[i].delta)], items, i + 1)

RECURSIVE CountAcked(_, _)
CountAcked(ack, i) ==
  IF i > Len(ack) THEN 0
  ELSE ack[i].impressions + ack[i].clicks + ack[i].watch3s + ack[i].watch30s
         + CountAcked(ack, i + 1)

\* POST /ab/experiments/{exp_id}/metrics, run to completion.
ingest_metrics(exp_id, items) ==
  IF exp_id \notin 1..Len(experiments) THEN
    /\ resp' = AbOut("ingestMetrics", "ExperimentNotFound", exp_id)
    /\ UNCHANGED <<stats, acked>>
  ELSE
    /\ stats' = ApplyItems(experiments[exp_id], stats, items, 1)
    /\ acked' = AckItems(acked, items, 1)
    /\ resp' = AbOut("ingestMetrics", "ok", exp_id)

\* The counters are capped through the deltas delivered so far.
IngestMetrics ==
  /\ CountAcked(acked, 1) < MaxDeltas
  /\ \E exp_id \in 1..(MaxExperiments + 1), items \in BatchInputs : ingest_metrics(exp_id, items)
  /\ UNCHANGED <<jobs, events, audits, now, calls, experiments, variants, ingests>>

\* int(row.get(...)) takes any integer, negative ones included.
SignedDeltaInputs == {Delta(2, 1, 0, 0), Delta(0 - 2, 0 - 2, 0, 0)}

SignedItemInputs == {Item(vid, dl) : vid \in 1..Len(variants), dl \in SignedDeltaInputs}

\* An item whose variantId has no row.
UnknownItem == Item(Len(variants) + 1, Delta(1, 1, 1, 1))

\* The batches: one item, known or not, or an unknown item between two known ones.
MixedBatchInputs ==
  {<<it>> : it \in SignedItemInputs \cup {UnknownItem}}
    \cup {<<a, UnknownItem, b>> : a \in SignedItemInputs, b \in SignedItemInputs}

Abs(n) == IF n < 0 THEN 0 - n ELSE n

RECURSIVE CountStored(_, _)
CountStored(sts, i) ==
  IF i > Len(sts) THEN 0
  ELSE Abs(sts[i].impressions) + Abs(sts[i].clicks) + Abs(sts[i].watch3s) + Abs(sts[i].watch30s)
         + CountStored(sts, i + 1)

\* The same handler with signed deltas and mixed batches; the request and its
\* answer are kept in the record of connection c1.
IngestBatch ==
  /\ CountStored(stats, 1) < MaxDeltas
  /\ \E exp_id \in 1..(Len(experiments) + 1), items \in MixedBatchInputs :
       /\ ingest_metrics(exp_id, items)
       /\ ingests' = [ingests EXCEPT !["c1"] =
            [pc |-> "done", exp_id |-> exp_id, items |-> items,
             out |-> AbOut("ingestMetrics",
                           IF exp_id \in 1..Len(experiments) THEN "ok" ELSE "ExperimentNotFound",
                           exp_id)]]
  /\ UNCHANGED <<jobs, events, audits, now, calls, experiments, variants>>

\* ------------------------------------------------------ allocation
\* A rational is a pair <<numerator, denominator>> with denominator > 0.
RECURSIVE GCD(_, _)
GCD(a, b) == IF b = 0 THEN a ELSE GCD(b, a % b)

LCM(a, b) == (a \div GCD(a, b)) * b

Reduce(q) ==
  LET g == GCD(IF q[1] < 0 THEN 0 - q[1] ELSE q[1], q[2])
  IN  IF g = 0 THEN q ELSE <<q[1] \div g, q[2] \div g>>

\* q < r
Less(q, r) == q[1] * r[2] < r[1] * q[2]

RECURSIVE SumSeq(_, _)
SumSeq(f, i) == IF i > Len(f) THEN 0 ELSE f[i] + SumSeq(f, i + 1)

RECURSIVE CommonDen(_, _)
CommonDen(qs, i) == IF i > Len(qs) THEN 1 ELSE LCM(qs[i][2], CommonDen(qs, i + 1))

\* The weight floor of recommend_allocations, 1e-6.
EPSILON == <<1, 1000000>>

\* The min_share decide passes, 0.10.
MIN_SHARE == <<1, 10>>

VariantPosterior(vid, imp, succ, alpha, beta) ==
  [variant_id |-> vid, impressions |-> imp, successes |-> succ, alpha |-> alpha, beta |-> beta]

\* VariantPosterior.mean divides by alpha + beta.
ZeroDivision(posteriors) ==
  \E i \in 1..Len(posteriors) : posteriors[i].alpha + posteriors[i].beta = 0

\* VariantPosterior.mean, for alpha + beta # 0.
mean(p) ==
  LET d == p.alpha + p.beta
  IN  IF d > 0 THEN Reduce(<<p.alpha, d>>) ELSE Reduce(<<0 - p.alpha, 0 - d>>)

\* max(v.mean, 1e-6)
weight(p) == IF Less(mean(p), EPSILON) THEN EPSILON ELSE mean(p)

\* alloc = [max(a, min_share) for a in alloc], in units of 1/(min_share[2] * total).
floored(W, total, min_share) ==
  [i \in 1..Len(W) |-> Max(min_share[2] * W[i], min_share[1] * total)]

\* recommend_allocations: the share of posteriors[i] at index i. W holds the
\* weights over their common denominator, so w/total is W[i]/total.
recommend_allocations(posteriors, min_share) ==
  LET weights == [i \in 1..Len(posteriors) |-> weight(posteriors[i])]
      den     == CommonDen(weights, 1)
      W       == [i \in 1..Len(posteriors) |-> weights[i][1] * (den \div weights[i][2])]
      total   == SumSeq(W, 1)
      alloc   == floored(W, total, min_share)
      norm    == SumSeq(alloc, 1)
  IN  [i \in 1..Len(posteriors) |-> Reduce(<<alloc[i], norm>>)]

\* The indices min(posteriors, key=mean) can return.
Winners_least(posteriors) ==
  {i \in 1..Len(posteriors) :
     \A j \in 1..Len(posteriors) : ~Less(mean(posteriors[j]), mean(posteriors[i]))}

\* The indices max(posteriors, key=mean) can return: the first maximal one in
\* the order of the list, which is the order of a query without ORDER BY.
Winners(posteriors) ==
  {i \in 1..Len(posteriors) :
     \A j \in 1..Len(posteriors) : ~Less(mean(posteriors[i]), mean(posteriors[j]))}

total_impr(posteriors) ==
  SumSeq([i \in 1..Len(posteriors) |-> posteriors[i].impressions], 1)

\* A gate that looks at the runtime only.
NotEligible_runtime_only(posteriors, min_impressions, runtime_ok) == ~runtime_ok

\* should_promote's gate, line 21.
NotEligible(posteriors, min_impressions, runtime_ok) ==
  total_impr(posteriors) < min_impressions \/ ~runtime_ok

\* The (alpha, beta) pairs of the posteriors handed to recommend_allocations:
\* means 0.95, 0.05, 0.5, 0 and 0.75.
BetaInputs == {<<19, 1>>, <<1, 19>>, <<1, 1>>, <<0, 1>>, <<3, 1>>}

PosteriorLists ==
  UNION {[1..n -> BetaInputs] : n \in 1..3}

MinShareInputs == {<<1, 10>>, <<1, 3>>, <<1, 2>>}

\* A call of recommend_allocations on its own.
RecommendAllocations ==
  /\ resp.op = "none"
  /\ \E ps \in PosteriorLists, ms \in MinShareInputs :
       LET posteriors == [i \in 1..Len(ps) |-> VariantPosterior(i, 0, 0, ps[i][1], ps[i][2])]
       IN  resp' = [op |-> "recommendAllocations", posteriors |-> posteriors, min_share |-> ms,
                    allocations |-> recommend_allocations(posteriors, ms)]
  /\ UNCHANGED <<jobs, events, audits, now, calls, abVars, audits>>

\* ---------------------------------------------------------- decide
DecideOut(status, exp_id, state, allocations, promote) ==
  [op |-> "decide", status |-> status, experimentId |-> exp_id, state |-> state,
   allocations |-> allocations, promote |-> promote]

NoPromote == [variantId |-> NULL, posteriorMean |-> <<0, 1>>]

\* The ids of the variants of an experiment, in id order.
VariantsOf(exp_id) ==
  SelectSeq([i \in 1..Len(variants) |-> i], LAMBDA v : variants[v].experiment_id = exp_id)

\* Lines 86-87: the posteriors decide builds from the rows it has read.
PosteriorsFrom(exp, vids, rows) ==
  [i \in 1..Len(vids) |->
     LET st == rows[i]
         succ == successes(exp.target_metric, st)
     IN  VariantPosterior(vids[i], st.impressions, succ, exp.prior_alpha + succ,
                          exp.prior_beta + Max(st.impressions - succ, 0))]

\* Lines 84-87: the posteriors decide builds from the stats rows.
Posteriors(exp, vids) == PosteriorsFrom(exp, vids, [i \in 1..Len(vids) |-> stats[vids[i]]])

\* Line 89.
runtime_ok == TRUE

\* Lines 88-96: the allocation, the gate, the promotion and the answer, from
\* the posteriors of the variants vids. An exception leaves the store as it
\* was: the updates and the commit come after the last call that can raise.
conclude(exp_id, vids, posteriors) ==
    LET exp == experiments[exp_id]
    IN  IF ZeroDivision(posteriors) THEN
          /\ resp' = DecideOut("ZeroDivisionError", exp_id, "none", <<>>, NoPromote)
          /\ UNCHANGED <<experiments, variants>>
        ELSE IF NotEligible(posteriors, exp.min_impressions, runtime_ok) THEN
          /\ resp' = DecideOut("ok", exp_id, exp.state,
                               recommend_allocations(posteriors, MIN_SHARE), NoPromote)
          /\ UNCHANGED <<experiments, variants>>
        ELSE IF Len(posteriors) = 0 THEN
          /\ resp' = DecideOut("ValueError", exp_id, "none", <<>>, NoPromote)
          /\ UNCHANGED <<experiments, variants>>
        ELSE \E w \in Winners(posteriors) :
          /\ experiments' = [experiments EXCEPT ![exp_id].state = "PROMOTED"]
          /\ variants' = [variants EXCEPT ![vids[w]].state = "PROMOTED"]
          /\ resp' = DecideOut("ok", exp_id, "PROMOTED",
                               recommend_allocations(posteriors, MIN_SHARE),
                               [variantId |-> vids[w], posteriorMean |-> mean(posteriors[w])])

\* POST /ab/experiments/{exp_id}/decide, run to completion.
decide(exp_id) ==
  IF exp_id \notin 1..Len(experiments) THEN
    /\ resp' = DecideOut("ExperimentNotFound", exp_id, "none", <<>>, NoPromote)
    /\ UNCHANGED <<experiments, variants>>
  ELSE
    conclude(exp_id, VariantsOf(exp_id), Posteriors(experiments[exp_id], VariantsOf(exp_id)))

Decide ==
  /\ \E exp_id \in 1..(MaxExperiments + 1) : decide(exp_id)
  /\ UNCHANGED <<jobs, events, audits, now, calls, stats, ingests, acked>>

\* The clock reaches the end of an experiment's minimum runtime; no request
\* is being answered.
RuntimeElapses ==
  /\ \E e \in 1..Len(experiments) :
       /\ now < experiments[e].created_at + experiments[e].min_runtime_seconds
       /\ now' = experiments[e].created_at + experiments[e].min_runtime_seconds
  /\ resp' = [op |-> "none"]
  /\ UNCHANGED <<jobs, events, calls, abVars, audits>>

\* ------------------------------------- POST .../metrics, interleaved
\* The same handler on one-item batches as steps of concurrent requests. The
\* select of line 66 sees the rows committed before it; the update of lines
\* 73-75 writes the values computed from the row that was read and waits
\* while another transaction holds an uncommitted update of the same row.
IdleIngest == [pc |-> "idle"]

\* Lines 62-63: the experiment lookup.
IngestBegin(c) ==
  /\ ingests[c].pc \in {"idle", "done"}
  /\ CountAcked(acked, 1) < MaxDeltas
  /\ \E exp_id \in 1..(MaxExperiments + 1), it \in ItemInputs :
       ingests' = [ingests EXCEPT ![c] =
         IF exp_id \notin 1..Len(experiments)
           THEN [pc |-> "done", out |-> AbOut("ingestMetrics", "ExperimentNotFound", exp_id)]
           ELSE [pc |-> "read", exp_id |-> exp_id, item |-> it]]
  /\ UNCHANGED <<jobs, events, audits, now, resp, calls, experiments, variants, stats, acked>>

\* Lines 66-72: read the stats row and compute the new values.
IngestRead(c) ==
  /\ ingests[c].pc = "read"
  /\ LET vid == ingests[c].item.variantId
         exp == experiments[ingests[c].exp_id]
     IN ingests' = [ingests EXCEPT ![c] =
          IF vid \notin 1..Len(stats)
            THEN [pc |-> "commit", exp_id |-> ingests[c].exp_id, item |-> ingests[c].item,
                  wrote |-> FALSE, values |-> ZeroCounters]
            ELSE [pc |-> "write", exp_id |-> ingests[c].exp_id, item |-> ingests[c].item,
                  values |-> UpdatedStat(exp, stats[vid], ingests[c].item.delta)]]
  /\ UNCHANGED <<jobs, events, audits, now, resp, calls, experiments, variants, stats, acked>>

\* The row a connection holds an uncommitted update of.
Locks(c, vid) ==
  /\ ingests[c].pc = "commit"
  /\ ingests[c].wrote
  /\ ingests[c].item.variantId = vid

\* Lines 73-75: the update statement.
IngestWrite(c) ==
  /\ ingests[c].pc = "write"
  /\ \A d \in Conns \ {c} : ~Locks(d, ingests[c].item.variantId)
  /\ ingests' = [ingests EXCEPT ![c] =
       [pc |-> "commit", exp_id |-> ingests[c].exp_id, item |-> ingests[c].item,
        wrote |-> TRUE, values |-> ingests[c].values]]
  /\ UNCHANGED <<jobs, events, audits, now, resp, calls, experiments, variants, stats, acked>>

\* Line 76: commit and answer.
IngestCommit(c) ==
  /\ ingests[c].pc = "commit"
  /\ LET vid == ingests[c].item.variantId
     IN IF ingests[c].wrote
          THEN /\ stats' = [stats EXCEPT ![vid] = ingests[c].values]
               /\ acked' = [acked EXCEPT ![vid] = AddDelta(@, ingests[c].item.delta)]
          ELSE UNCHANGED <<stats, acked>>
  /\ ingests' = [ingests EXCEPT ![c] =
       [pc |-> "done", out |-> AbOut("ingestMetrics", "ok", ingests[c].exp_id)]]
  /\ UNCHANGED <<jobs, events, audits, now, resp, calls, experiments, variants>>

\* ------------------------------------- POST .../decide, interleaved
\* The same handler as steps of a request that runs beside metrics requests:
\* each select of lines 82 and 85 is a statement of its own and sees the rows
\* committed before it. The record of the request keeps the rows it has read
\* and, in versions, every committed content of variant_stats since it began.

\* A report on every variant of an experiment in one batch.
ReportInputs(exp_id) ==
  {[i \in 1..Len(VariantsOf(exp_id)) |-> Item(VariantsOf(exp_id)[i], dl)] : dl \in DeltaInputs}

\* A metrics request committing (line 76) beside the decide request of c.
IngestBeside(c) ==
  /\ CountAcked(acked, 1) < MaxDeltas
  /\ \E exp_id \in 1..Len(experiments) :
       \E items \in ReportInputs(exp_id) : ingest_metrics(exp_id, items)
  /\ ingests' = [ingests EXCEPT ![c] =
       IF @.pc = "read" THEN [@ EXCEPT !.versions = @ \cup {stats'}] ELSE @]
  /\ UNCHANGED <<jobs, events, audits, now, calls, experiments, variants>>

\* Lines 79-82: the experiment lookup and the select of its variants.
DecideBegin(c) ==
  /\ ingests[c].pc \in {"idle", "done"}
  /\ \E exp_id \in 1..(MaxExperiments + 1) :
       IF exp_id \notin 1..Len(experiments)
         THEN /\ resp' = DecideOut("ExperimentNotFound", exp_id, "none", <<>>, NoPromote)
              /\ ingests' = [ingests EXCEPT ![c] = [pc |-> "done"]]
         ELSE /\ resp' = [op |-> "none"]
              /\ ingests' = [ingests EXCEPT ![c] =
                   [pc |-> "read", exp_id |-> exp_id, vids |-> VariantsOf(exp_id),
                    rows |-> <<>>, versions |-> {stats}]]
  /\ UNCHANGED <<jobs, events, audits, now, calls, experiments, variants, stats, acked>>

\* Line 85: the select of the stats row of the next variant.
DecideRead(c) ==
  /\ ingests[c].pc = "read"
  /\ Len(ingests[c].rows) < Len(ingests[c].vids)
  /\ ingests' = [ingests EXCEPT ![c].rows =
       Append(@, stats[ingests[c].vids[Len(ingests[c].rows) + 1]])]
  /\ resp' = [op |-> "none"]
  /\ UNCHANGED <<jobs, events, audits, now, calls, experiments, variants, stats, acked>>

\* Lines 88-96, from the rows that were read.
DecideFinish(c) ==
  /\ ingests[c].pc = "read"
  /\ Len(ingests[c].rows) = Len(ingests[c].vids)
  /\ conclude(ingests[c].exp_id, ingests[c].vids,
              PosteriorsFrom(experiments[ingests[c].exp_id], ingests[c].vids, ingests[c].rows))
  /\ ingests' = [ingests EXCEPT ![c] = [pc |-> "done"]]
  /\ UNCHANGED <<jobs, events, audits, now, calls, stats, acked>>

\* ----------------------------------------------------------- lifecycle
TerminalStates == {"COMPLETED", "FAILED", "TIMED_OUT", "CANCELED"}

Successor(s) ==
  CASE s = "CREATED" -> "QUEUED"
    [] s = "QUEUED" -> "INGESTING"
    [] s = "INGESTING" -> "TRANSCRIBING"
    [] s = "TRANSCRIBING" -> "ANALYZING"
    [] s = "ANALYZING" -> "EDITING"
    [] s = "EDITING" -> "RENDERING"
    [] s = "RENDERING" -> "UPLOADING"
    [] s = "UPLOADING" -> "COMPLETED"
    [] OTHER -> "none"

\* A table that lets a terminal state move on.
Legal_from_any(from, to) ==
  \/ to = Successor(from)
  \/ to \in {"FAILED", "TIMED_OUT", "CANCELED"}

Legal(from, to) ==
  /\ from \notin TerminalStates
  /\ \/ to = Successor(from)
     \/ to \in {"FAILED", "TIMED_OUT", "CANCELED"}

RECURSIVE CountEvents(_, _)
CountEvents(ev, i) == IF i > Len(ev) THEN 0 ELSE Len(ev[i]) + CountEvents(ev, i + 1)

\* Transitions applied so far: every event but each job's QUEUED event.
Transitions == CountEvents(events, 1) - Len(events)

TransitionOut(status, job_id, newState, state) ==
  [op |-> "transition", status |-> status, jobId |-> job_id, newState |-> newState,
   state |-> state]

\* A breach that counts the target itself.
breached_inclusive(actual_seconds, target_seconds) == actual_seconds >= target_seconds

breached(actual_seconds, target_seconds) == actual_seconds > target_seconds

\* The audit of a job that ends at time t: the target is the stored ETA, the
\* actual time runs from the QUEUED event, logged at the job's creation.
JobSlaAudit(job_id, t) ==
  LET actual == t - jobs[job_id].created_at
  IN  [job_id |-> job_id, target_seconds |-> jobs[job_id].eta_seconds,
       actual_seconds |-> actual, breached |-> breached(actual, jobs[job_id].eta_seconds)]

\* transition(jobId, newState) at time t
transition(job_id, newState, t) ==
  IF job_id \notin 1..Len(jobs) THEN
    /\ resp' = TransitionOut("JobNotFound", job_id, newState, "none")
    /\ UNCHANGED <<jobs, events, audits, now>>
  ELSE IF ~Legal(jobs[job_id].state, newState) THEN
    /\ resp' = TransitionOut("IllegalTransition", job_id, newState, jobs[job_id].state)
    /\ UNCHANGED <<jobs, events, audits, now>>
  ELSE
    /\ jobs' = [jobs EXCEPT ![job_id].state = newState]
    /\ events' = [events EXCEPT ![job_id] = Append(@, newState)]
    /\ audits' = IF newState \in TerminalStates
                   THEN Append(audits, JobSlaAudit(job_id, t)) ELSE audits
    /\ now' = t
    /\ resp' = TransitionOut("ok", job_id, newState, newState)

\* The states asked for beside submissions: the next one, a terminal one and
\* one that is never legal.
TransitionInputs == {"INGESTING", "CANCELED", "CREATED"}

\* A transition request, answered at once; applied while the bound allows.
Transition ==
  /\ \E job_id \in 1..(MaxJobs + 1), s \in TransitionInputs :
       /\ (job_id \in 1..Len(jobs) /\ Legal(jobs[job_id].state, s))
            => Transitions < MaxTransitions
       /\ transition(job_id, s, now)
  /\ UNCHANGED <<calls, abVars>>

\* A transition request of the first Job to any state, applied at once.
TransitionNow ==
  /\ jobs # <<>>
  /\ \E s \in JobState : transition(1, s, now)
  /\ UNCHANGED <<calls, abVars>>

\* The times a transition of a job is applied at: at once, at the job's
\* target, or one second after it.
Deadlines(job_id) ==
  IF job_id \notin 1..Len(jobs) THEN {now}
  ELSE {t \in {now, jobs[job_id].created_at + jobs[job_id].eta_seconds,
               jobs[job_id].created_at + jobs[job_id].eta_seconds + 1} : t >= now}

\* A transition request on the first Job, at any of these times.
TransitionAt ==
  /\ \E job_id \in 1..(MaxJobs + 1), s \in JobState :
       \E t \in Deadlines(job_id) : transition(job_id, s, t)
  /\ UNCHANGED <<calls, abVars>>

\* ------------------------------------------------------- specification
Init ==
  /\ jobs = <<>>
  /\ events = <<>>
  /\ audits = <<>>
  /\ now = 0
  /\ resp = [op |-> "none"]
  /\ calls = [c \in Conns |-> Idle]
  /\ experiments = <<>>
  /\ variants = <<>>
  /\ stats = <<>>
  /\ ingests = [c \in Conns |-> IdleIngest]
  /\ acked = <<>>

\* Admission: every request shape, no lifecycle.
Next == Submit \/ GetJob

Spec == Init /\ [][Next]_vars

\* Lifecycle: valid keyless submissions and the state machine.
NextLife == SubmitLife \/ GetJob \/ Transition

SpecLife == Init /\ [][NextLife]_vars

\* Idempotent retry: sequential submissions over the idempotency keys.
NextIdem == SubmitIdem \/ GetJob

SpecIdem == Init /\ [][NextIdem]_vars

\* Experiments on the first Job: the store holds one submitted Job.
SubmitFirst ==
  /\ jobs = <<>>
  /\ create_job("express", 10, NoKey, now)
  /\ UNCHANGED <<calls, abVars, audits>>

\* The state machine and the audit of one Job.
NextMachine == SubmitFirst \/ TransitionAt \/ GetJob

SpecMachine == Init /\ [][NextMachine]_vars

\* Submissions behind Jobs at any stage of processing.
NextQueue == SubmitLife \/ TransitionNow

SpecQueue == Init /\ [][NextQueue]_vars

NextAB == SubmitFirst \/ CreateExperiment \/ IngestMetrics \/ Decide

SpecAB == Init /\ [][NextAB]_vars

\* The first experiment on the first Job.
CreateFirst ==
  /\ experiments = <<>>
  /\ \E m \in MetricInputs, mi \in MinImpressionsInputs, mr \in MinRuntimeInputs,
        n \in VariantCountInputs :
       create_experiment(1, m, mi, mr, n)
  /\ UNCHANGED <<jobs, events, audits, now, calls, ingests>>

\* One experiment of any length on the first Job.
CreateAny ==
  /\ experiments = <<>>
  /\ \E m \in MetricInputs, mi \in MinImpressionsInputs, mr \in MinRuntimeInputs,
        n \in AnyCountInputs :
       create_experiment(1, m, mi, mr, n)
  /\ UNCHANGED <<jobs, events, audits, now, calls, ingests>>

\* One experiment under signed and mixed metrics batches.
NextSigned == SubmitFirst \/ CreateAny \/ IngestBatch \/ Decide \/ RuntimeElapses

SpecSigned == Init /\ [][NextSigned]_vars

\* The allocation rule over lists of posteriors.
NextAlloc == RecommendAllocations

SpecAlloc == Init /\ [][NextAlloc]_vars

\* Concurrent metrics requests on one experiment.
NextIngestRace ==
  \/ SubmitFirst
  \/ CreateFirst
  \/ \E c \in Conns : IngestBegin(c) \/ IngestRead(c) \/ IngestWrite(c) \/ IngestCommit(c)

SpecIngestRace == Init /\ [][NextIngestRace]_vars

\* The first POST /jobs, in steps.
RaceLookupFirst ==
  /\ jobs = <<>>
  /\ RaceLookup("c1")

\* One POST /jobs in steps, while its Job is moved on and read.
NextFrozen ==
  \/ RaceLookupFirst \/ RaceInsert("c1") \/ RaceEta("c1") \/ RaceStore("c1")
  \/ TransitionNow
  \/ GetJob

SpecFrozen == Init /\ [][NextFrozen]_vars

\* Metrics that keep arriving after a decision.
IngestMore ==
  /\ CountAcked(acked, 1) < 2 * MaxDeltas
  /\ \E exp_id \in 1..(MaxExperiments + 1), items \in BatchInputs : ingest_metrics(exp_id, items)
  /\ UNCHANGED <<jobs, events, audits, now, calls, experiments, variants, ingests>>

\* One experiment decided more than once.
NextPromote == SubmitFirst \/ CreateFirst \/ IngestMore \/ Decide

SpecPromote == Init /\ [][NextPromote]_vars

\* A decide request beside metrics requests on one experiment.
NextDecideRace ==
  \/ SubmitFirst
  \/ CreateFirst
  \/ IngestBeside("c1")
  \/ DecideBegin("c1") \/ DecideRead("c1") \/ DecideFinish("c1")

SpecDecideRace == Init /\ [][NextDecideRace]_vars

\* Concurrent duplicate submission.
NextRace == \E c \in Conns : RaceLookup(c) \/ RaceInsert(c) \/ RaceEta(c) \/ RaceStore(c)

SpecRace == Init /\ [][NextRace]_vars

\* =============================================================== claims
\* The sum of inputMinutes x targetMultiplier (hundredths) over the job ids S.
RECURSIVE SumMinutes(_)
SumMinutes(S) ==
  IF S = {} THEN 0
  ELSE LET i == CHOOSE x \in S : TRUE
       IN  (jobs[i].input_minutes * Plans[jobs[i].plan_id].target_multiplier)
             + SumMinutes(S \ {i})

\* The snapshot jobs ahead of job j under the tie-break rule.
AheadOf(j) ==
  {i \in 1..Len(jobs) :
     /\ jobs[i].state \in ACTIVE_STATES
     /\ \/ jobs[i].lane < jobs[j].lane
        \/ (jobs[i].lane = jobs[j].lane /\ jobs[i].created_at < jobs[j].created_at)}

\* The states of the spec's snapshot: non-terminal and not CREATED.
QueueStates == JobState \ (TerminalStates \cup {"CREATED"})

Created == resp.op = "submit" /\ resp.status = "created"

\* C1: at most one Job per (orgId, idempotencyKey) ever exists, and the
\* submit calls that raced on one key all return the same jobId.
C1_OneJobPerKey ==
  /\ \A i, j \in 1..Len(jobs) :
       (/\ jobs[i].idempotency_key # NoKey
        /\ jobs[i].org_id = jobs[j].org_id
        /\ jobs[i].idempotency_key = jobs[j].idempotency_key) => i = j
  /\ \A c, d \in Conns :
       (/\ calls[c].pc = "done" /\ calls[d].pc = "done"
        /\ calls[c].out.status \in {"created", "duplicate"}
        /\ calls[d].out.status \in {"created", "duplicate"}
        /\ calls[c].req[3] = calls[d].req[3])
       => calls[c].out.jobId = calls[d].out.jobId

\* C9: every Variant's stored posterior is alpha = priorAlpha + successes and
\* beta = priorBeta + max(impressions - successes, 0), successes being the
\* counter selected by the targetMetric of the Experiment that owns it.
C9_PosteriorInvariant ==
  \A v \in 1..Len(variants) :
    LET e    == experiments[variants[v].experiment_id]
        succ == IF e.target_metric = "CTR" THEN stats[v].clicks
                ELSE IF e.target_metric = "Watch3s" THEN stats[v].watch3s
                ELSE stats[v].watch30s
    IN  /\ stats[v].alpha = e.prior_alpha + succ
        /\ stats[v].beta = e.prior_beta + Max(stats[v].impressions - succ, 0)

\* C10: when concurrent ingestMetrics calls for one Variant have completed,
\* each of its counters equals its prior value plus the sum of the calls'
\* deltas.
C10_NoLostUpdate ==
  (\A c \in Conns : ingests[c].pc \in {"idle", "done"})
  => \A v \in 1..Len(stats) :
       /\ stats[v].impressions = acked[v].impressions
       /\ stats[v].clicks = acked[v].clicks
       /\ stats[v].watch3s = acked[v].watch3s
       /\ stats[v].watch30s = acked[v].watch30s

\* C2: a submit that passes validation and carries an idempotencyKey for which
\* a Job with the same (orgId, idempotencyKey) exists returns that Job's id,
\* lane and state and leaves the Jobs and the JobEvents unchanged.
C2_IdempotentRetry ==
  [][(/\ resp'.op = "submit"
      /\ resp'.status \notin {"UnknownPlan", "InvalidInput"}
      /\ resp'.key # NoKey
      /\ DupRows(jobs, DemoOrg, resp'.key) # {})
     => (/\ jobs' = jobs
         /\ events' = events
         /\ resp'.jobId \in DupRows(jobs, DemoOrg, resp'.key)
         /\ resp'.state = jobs[resp'.jobId].state
         /\ resp'.lane = lane_str(jobs[resp'.jobId].lane))]_vars

\* C3: submit is rejected with UnknownPlan exactly when the plan does not
\* resolve, with InvalidInput exactly when the plan resolves and inputMinutes
\* is outside [1, maxInputMinutes]; a rejected submit changes no Job, no event.
C3_AdmissionRejects ==
  [][resp'.op = "submit"
     => (/\ (resp'.status = "UnknownPlan") <=> (resp'.plan \notin DOMAIN Plans)
         /\ (resp'.status = "InvalidInput")
              <=> (/\ resp'.plan \in DOMAIN Plans
                   /\ \/ resp'.inputMinutes < 1
                      \/ resp'.inputMinutes > Plans[resp'.plan].max_input_minutes)
         /\ (resp'.status \in {"UnknownPlan", "InvalidInput"})
              => (jobs' = jobs /\ events' = events))]_vars

\* One minute above the ceiling is refused while the ceiling itself and one
\* minute were admitted before.
C3_Witness ==
  /\ resp.op = "submit" /\ resp.status = "InvalidInput"
  /\ resp.plan = "standard"
  /\ resp.inputMinutes = Plans["standard"].max_input_minutes + 1
  /\ Len(jobs) = 2
  /\ jobs[1].input_minutes = 1
  /\ jobs[2].input_minutes = Plans["standard"].max_input_minutes

\* C4: a successful non-duplicate submit adds exactly one Job, QUEUED, in the
\* plan's lane, adds exactly one QUEUED event for it, and stores the returned
\* non-null etaSeconds; no step changes the lane of an existing Job.
C4_SubmitCreates ==
  [][/\ (resp'.op = "submit" /\ resp'.status = "created")
          => (/\ Len(jobs') = Len(jobs) + 1
              /\ SubSeq(jobs', 1, Len(jobs)) = jobs
              /\ resp'.jobId = Len(jobs')
              /\ jobs'[Len(jobs')].state = "QUEUED"
              /\ jobs'[Len(jobs')].lane = Plans[resp'.plan].lane
              /\ events' = Append(events, <<"QUEUED">>)
              /\ jobs'[Len(jobs')].eta_seconds # NULL
              /\ jobs'[Len(jobs')].eta_seconds = resp'.etaSeconds)
     /\ \A j \in 1..Len(jobs) : j <= Len(jobs') /\ jobs'[j].lane = jobs[j].lane]_vars

C4_Witness ==
  /\ Created
  /\ resp.key = "k1"
  /\ resp.lane = "P2"
  /\ Len(jobs) = 2
  /\ jobs[1].lane = 0

\* C5: for every target Job, queueMinutesAhead is the sum of inputMinutes x
\* targetMultiplier over exactly the snapshot Jobs in a lower lane, or in the
\* same lane and created earlier; a queued 10-minute express Job puts 8
\* minutes ahead of a lane-1 Job whichever was created first.
C5_QueueMinutesAhead ==
  /\ \A j \in 1..Len(jobs) : queue_minutes_ahead(jobs, jobs[j]) = SumMinutes(AheadOf(j))
  /\ \A i, j \in 1..Len(jobs) :
       (/\ jobs[i].plan_id = "express" /\ jobs[i].input_minutes = 10 /\ jobs[i].state = "QUEUED"
        /\ jobs[j].lane = 1
        /\ \A k \in 1..Len(jobs) : k \notin {i, j} => jobs[k].state \notin ACTIVE_STATES)
       => queue_minutes_ahead(jobs, jobs[j]) = 800
  /\ \A i, j \in 1..Len(jobs) : jobs[i].lane > jobs[j].lane => i \notin AheadOf(j)

\* A lane-1 Job, then a later express Job still queued: 8 minutes ahead.
C5_Witness ==
  /\ Len(jobs) = 2
  /\ jobs[1].lane = 1 /\ jobs[2].plan_id = "express" /\ jobs[2].state = "QUEUED"
  /\ jobs[2].created_at > jobs[1].created_at
  /\ queue_minutes_ahead(jobs, jobs[1]) = 800

\* The estimate of the job just created, as numerator and denominator of
\* seconds: ((q / effective) + expected) * 60 = EtaNum / EtaDen.
EtaNum(j) ==
  (SumMinutes(AheadOf(j)) * 600)
    + (jobs[j].input_minutes * Plans[jobs[j].plan_id].target_multiplier * 60
         * THROUGHPUT(jobs[j].lane))

EtaDen(j) == 100 * THROUGHPUT(jobs[j].lane)

C8_GetJobFreshEta ==
  (resp.op = "getJob" /\ resp.status = "ok" /\ resp.state \notin TerminalStates)
  => resp.etaSeconds = compute_eta_seconds(jobs, jobs[resp.jobId])

\* The four counters of a stats row.
Counters(st) == <<st.impressions, st.clicks, st.watch3s, st.watch30s>>

\* C11: across ingestMetrics calls no Variant's impressions, clicks, watch3s
\* or watch30s ever becomes smaller than its previous value (so an item with
\* a negative delta is never applied to the stored counters).
C11_CountersMonotone ==
  [][\A v \in 1..Len(stats) :
       \A k \in 1..4 : Counters(stats'[v])[k] >= Counters(stats[v])[k]]_vars

DeltaTuple(dl) == <<dl.impressionsDelta, dl.clicksDelta, dl.watch3sDelta, dl.watch30sDelta>>

\* The sum of the k-th delta over the items of a batch that name variant v.
RECURSIVE SumDeltas(_, _, _, _)
SumDeltas(items, v, k, i) ==
  IF i > Len(items) THEN 0
  ELSE (IF items[i].variantId = v THEN DeltaTuple(items[i].delta)[k] ELSE 0)
         + SumDeltas(items, v, k, i + 1)

\* C12: ingestMetrics on an unknown experimentId fails with ExperimentNotFound
\* and changes no VariantStat; on a known Experiment the call returns ok and
\* every item that names a Variant is applied, whatever items matching no
\* Variant stand before or after it in the batch, and those change nothing.
C12_SkipUnknownItems ==
  [][resp'.op = "ingestMetrics" =>
       LET call == ingests'["c1"]
       IN  IF call.exp_id \notin 1..Len(experiments)
             THEN resp'.status = "ExperimentNotFound" /\ stats' = stats
             ELSE /\ resp'.status = "ok"
                  /\ Len(stats') = Len(stats)
                  /\ \A v \in 1..Len(stats) : \A k \in 1..4 :
                       Counters(stats'[v])[k]
                         = Counters(stats[v])[k] + SumDeltas(call.items, v, k, 1)]_vars

\* A batch of a known item, an unknown one and a known one has been answered
\* ok with both known items applied.
C12_Witness ==
  /\ resp.op = "ingestMetrics" /\ resp.status = "ok"
  /\ ingests["c1"].pc = "done"
  /\ Len(ingests["c1"].items) = 3
  /\ ingests["c1"].items[1].variantId = 1
  /\ ingests["c1"].items[2].variantId \notin 1..Len(variants)
  /\ ingests["c1"].items[3].variantId = 2
  /\ stats[1].impressions = 2
  /\ stats[2].impressions = 2

\* The sum of the rationals qs, over their common denominator.
SumShares(qs) ==
  LET den == CommonDen(qs, 1)
  IN  <<SumSeq([i \in 1..Len(qs) |-> qs[i][1] * (den \div qs[i][2])], 1), den>>

\* C13: for a non-empty list of posteriors and numVariants x minShare <= 1,
\* the shares recommendAllocations returns sum to 1 and each is >= minShare.
C13_AllocationFloor ==
  (/\ resp.op = "recommendAllocations"
   /\ Len(resp.posteriors) * resp.min_share[1] <= resp.min_share[2])
  => /\ Len(resp.allocations) = Len(resp.posteriors)
     /\ SumShares(resp.allocations)[1] = SumShares(resp.allocations)[2]
     /\ \A i \in 1..Len(resp.allocations) : ~Less(resp.allocations[i], resp.min_share)

\* The ids of the Variants of Experiment e.
VariantIds(e) == {v \in 1..Len(variants) : variants[v].experiment_id = e}

RECURSIVE SumImpressions(_)
SumImpressions(S) ==
  IF S = {} THEN 0
  ELSE LET v == CHOOSE x \in S : TRUE IN stats[v].impressions + SumImpressions(S \ {v})

\* The step is a decide call on an existing Experiment.
DecideStep == resp'.op = "decide" /\ resp'.experimentId \in 1..Len(experiments)

\* C14: a decide call made while the sum of the Variants' impressions is below
\* the Experiment's minImpressions changes neither the Experiment's state nor
\* any Variant's state, and its result carries no promoted winner.
C14_NoPromotionBelowMinImpressions ==
  [][(/\ DecideStep
      /\ SumImpressions(VariantIds(resp'.experimentId))
           < experiments[resp'.experimentId].min_impressions)
     => /\ experiments' = experiments
        /\ variants' = variants
        /\ resp'.promote.variantId = NULL
        /\ resp'.state # "PROMOTED"]_vars

\* decide has answered, without a winner, for an Experiment that has
\* impressions but fewer than minImpressions.
C14_Witness ==
  /\ resp.op = "decide" /\ resp.status = "ok"
  /\ resp.experimentId \in 1..Len(experiments)
  /\ SumImpressions(VariantIds(resp.experimentId)) = 2
  /\ experiments[resp.experimentId].min_impressions = 3
  /\ experiments[resp.experimentId].state = "RUNNING"
  /\ resp.promote.variantId = NULL
  /\ \A v \in VariantIds(resp.experimentId) : variants[v].state # "PROMOTED"

\* The step moves Experiment e, or one of its Variants, to PROMOTED.
Promotes(e) ==
  \/ experiments[e].state # "PROMOTED" /\ experiments'[e].state = "PROMOTED"
  \/ \E v \in VariantIds(e) : variants[v].state # "PROMOTED" /\ variants'[v].state = "PROMOTED"

\* C15: a decide call moves the Experiment or a Variant to PROMOTED only when
\* at least minRuntimeSeconds have passed since the Experiment's creation.
C15_NoPromotionBeforeMinRuntime ==
  [][(DecideStep /\ Promotes(resp'.experimentId))
     => now >= experiments[resp'.experimentId].created_at
                 + experiments[resp'.experimentId].min_runtime_seconds]_vars

\* The posterior of Variant v under the targetMetric and priors of its
\* Experiment (section 3), from the stored counters: <<alpha, beta>>.
PosteriorOf(v) ==
  LET e    == experiments[variants[v].experiment_id]
      succ == IF e.target_metric = "CTR" THEN stats[v].clicks
              ELSE IF e.target_metric = "Watch3s" THEN stats[v].watch3s
              ELSE stats[v].watch30s
  IN  <<e.prior_alpha + succ,
        e.prior_beta + (IF stats[v].impressions > succ THEN stats[v].impressions - succ ELSE 0)>>

\* mean(v) >= mean(u), for positive alpha + beta.
MeanAtLeast(v, u) ==
  PosteriorOf(v)[1] * (PosteriorOf(u)[1] + PosteriorOf(u)[2])
    >= PosteriorOf(u)[1] * (PosteriorOf(v)[1] + PosteriorOf(v)[2])

\* C16: when decide promotes, the winner is a Variant of that Experiment whose
\* posterior mean alpha/(alpha+beta) is maximal among the Experiment's
\* Variants; the Experiment and the winner become PROMOTED and every other
\* Variant is left exactly as it was.
C16_PromotesBestVariantOnly ==
  [][(DecideStep /\ resp'.promote.variantId # NULL)
     => LET e == resp'.experimentId
            w == resp'.promote.variantId
        IN  /\ w \in VariantIds(e)
            /\ \A u \in VariantIds(e) : MeanAtLeast(w, u)
            /\ experiments'[e].state = "PROMOTED"
            /\ resp'.state = "PROMOTED"
            /\ variants'[w].state = "PROMOTED"
            /\ Len(variants') = Len(variants)
            /\ \A u \in (1..Len(variants)) \ {w} : variants'[u] = variants[u]]_vars

\* decide has promoted the better of two Variants and left the other DRAFT,
\* with a second Experiment in the store.
C16_Witness ==
  /\ resp.op = "decide" /\ resp.status = "ok"
  /\ resp.promote.variantId # NULL
  /\ Len(experiments) = 2
  /\ LET e == resp.experimentId
         w == resp.promote.variantId
     IN  /\ experiments[e].state = "PROMOTED"
         /\ variants[w].state = "PROMOTED"
         /\ \E u \in VariantIds(e) \ {w} :
              /\ variants[u].state = "DRAFT"
              /\ ~MeanAtLeast(u, w)

\* C17: decide on an existing Experiment succeeds, whatever its Variants,
\* counters and minImpressions, and returns an allocation entry for every
\* Variant of the Experiment; on an unknown Experiment it returns
\* ExperimentNotFound and changes no state.
C17_DecideAlwaysSucceeds ==
  [][resp'.op = "decide" =>
       IF resp'.experimentId \in 1..Len(experiments)
         THEN /\ resp'.status = "ok"
              /\ Len(resp'.allocations) = Cardinality(VariantIds(resp'.experimentId))
         ELSE /\ resp'.status = "ExperimentNotFound"
              /\ UNCHANGED <<experiments, variants, stats>>]_vars

\* C18: an Experiment produced by createExperiment has at least 2 Variants
\* (a request with fewer creates none) and each of them is stored READY.
C18_CreatedWithTwoReadyVariants ==
  [][(resp'.op = "createExperiment" /\ resp'.status = "created")
     => LET new == {v \in 1..Len(variants') : variants'[v].experiment_id = resp'.experimentId}
        IN  /\ Cardinality(new) >= 2
            /\ \A v \in new : variants'[v].state = "READY"]_vars

\* The linear order of section 4.1.
StateOrder == <<"CREATED", "QUEUED", "INGESTING", "TRANSCRIBING", "ANALYZING", "EDITING",
                "RENDERING", "UPLOADING", "COMPLETED">>

\* to comes after from in the order, or is a terminal alternate, and from is
\* not terminal.
Reachable(from, to) ==
  /\ from \notin {"COMPLETED", "FAILED", "TIMED_OUT", "CANCELED"}
  /\ \/ \E i, k \in 1..Len(StateOrder) : i < k /\ StateOrder[i] = from /\ StateOrder[k] = to
     \/ to \in {"FAILED", "TIMED_OUT", "CANCELED"}

\* C19: a transition to newState is applied only if newState is reachable from
\* the Job's current state; otherwise it fails with IllegalTransition and the
\* Job's state and event log are unchanged; a Job in a terminal state keeps
\* its state and its log in every step.
C19_IllegalTransitionRejected ==
  [][/\ (resp'.op = "transition" /\ resp'.jobId \in 1..Len(jobs))
          => LET j    == resp'.jobId
                 from == jobs[j].state
                 to   == resp'.newState
             IN  /\ (jobs'[j].state # from \/ events'[j] # events[j])
                      => /\ Reachable(from, to)
                         /\ jobs'[j].state = to
                         /\ events'[j] = Append(events[j], to)
                 /\ ~Reachable(from, to)
                      => /\ resp'.status = "IllegalTransition"
                         /\ jobs' = jobs
                         /\ events' = events
     /\ \A j \in 1..Len(jobs) :
          jobs[j].state \in {"COMPLETED", "FAILED", "TIMED_OUT", "CANCELED"}
            => jobs'[j].state = jobs[j].state /\ events'[j] = events[j]]_vars

\* A Job that went through the whole order to COMPLETED has been refused
\* RENDERING.
C19_Witness ==
  /\ resp.op = "transition" /\ resp.status = "IllegalTransition"
  /\ resp.newState = "RENDERING"
  /\ resp.jobId \in 1..Len(jobs)
  /\ jobs[resp.jobId].state = "COMPLETED"
  /\ events[resp.jobId] = Tail(StateOrder)

\* The audit rows of Job j in table a.
AuditsOf(a, j) == {i \in 1..Len(a) : a[i].job_id = j}

\* C20: a Job has exactly one JobSlaAudit from the step that takes it to a
\* terminal state on, and none before; the audit carries
\* breached = (actualSeconds > targetSeconds), actualSeconds running from the
\* QUEUED event to that step; audits are never changed, removed or duplicated.
C20_OneAuditAtTerminal ==
  [][/\ \A j \in 1..Len(jobs') :
          Cardinality(AuditsOf(audits', j))
            = IF jobs'[j].state \in {"COMPLETED", "FAILED", "TIMED_OUT", "CANCELED"} THEN 1 ELSE 0
     /\ Len(audits') >= Len(audits)
     /\ \A i \in 1..Len(audits) : audits'[i] = audits[i]
     /\ \A i \in (Len(audits) + 1)..Len(audits') :
          LET a == audits'[i]
          IN  /\ a.job_id \in 1..Len(jobs)
              /\ jobs[a.job_id].state \notin {"COMPLETED", "FAILED", "TIMED_OUT", "CANCELED"}
              /\ jobs'[a.job_id].state \in {"COMPLETED", "FAILED", "TIMED_OUT", "CANCELED"}
              /\ a.target_seconds = jobs[a.job_id].eta_seconds
              /\ a.actual_seconds = now' - jobs[a.job_id].created_at
              /\ a.breached = (a.actual_seconds > a.target_seconds)]_vars

\* A Job completed one second after its target has its one audit, breached.
C20_Witness ==
  /\ Len(audits) = 1
  /\ jobs[audits[1].job_id].state = "COMPLETED"
  /\ audits[1].target_seconds = 480
  /\ audits[1].actual_seconds = 481
  /\ audits[1].breached

\* The Jobs of the section 4.2 snapshot (QUEUED..UPLOADING) ahead of Job j.
SnapshotAheadOf(j) ==
  {i \in 1..Len(jobs) :
     /\ jobs[i].state \in QueueStates
     /\ \/ jobs[i].lane < jobs[j].lane
        \/ (jobs[i].lane = jobs[j].lane /\ jobs[i].created_at < jobs[j].created_at)}

\* C21: the snapshot behind queueMinutesAhead holds every Job in QUEUED,
\* INGESTING, TRANSCRIBING, ANALYZING, EDITING, RENDERING or UPLOADING and no
\* other: each such Job ahead of the target, an UPLOADING one included,
\* contributes its inputMinutes x targetMultiplier.
C21_SnapshotIncludesUploading ==
  \A j \in 1..Len(jobs) : queue_minutes_ahead(jobs, jobs[j]) = SumMinutes(SnapshotAheadOf(j))

\* C22: the ETA of a terminal Job is frozen: getJob of a Job in COMPLETED,
\* FAILED, TIMED_OUT or CANCELED answers the stored etaSeconds (possibly null)
\* and computes no new estimate.
C22_TerminalEtaFrozen ==
  [][(/\ resp' # resp
      /\ resp'.op = "getJob"
      /\ resp'.status = "ok"
      /\ resp'.state \in TerminalStates)
     => resp'.etaSeconds = jobs[resp'.jobId].eta_seconds]_vars

\* The step in which the decide request of c1 compares its posteriors.
DecideFinishStep == ingests["c1"].pc = "read" /\ ingests'["c1"].pc = "done"

\* The rows a decide request has read are those of the committed content S.
ReadFrom(S, d) == \A i \in 1..Len(d.vids) : d.rows[i] = S[d.vids[i]]

\* C23: decide compares posteriors of one consistent snapshot: under every
\* interleaving with metrics requests on the same Experiment, the rows it
\* compares are the rows of one committed content of the stats, never some
\* Variants from before and others from after a commit of ingestMetrics.
C23_DecideReadsOneSnapshot ==
  [][DecideFinishStep => \E S \in ingests["c1"].versions : ReadFrom(S, ingests["c1"])]_vars

\* The promoted variants of experiment e among the rows vs.
Promoted(vs, e) == {v \in VariantIds(e) : vs[v].state = "PROMOTED"}

\* C24: promotion is terminal and unique: an Experiment never has more than
\* one PROMOTED Variant, and once it has one no later step, a decide after
\* metrics that changed the best mean included, promotes another Variant or
\* changes the state of any of its Variants.
C24_PromotionTerminalAndUnique ==
  [][\A e \in 1..Len(experiments) :
       /\ Cardinality(Promoted(variants', e)) <= 1
       /\ Promoted(variants, e) # {}
          => \A v \in VariantIds(e) : variants'[v].state = variants[v].state]_vars

\* C25: ingestMetrics(experimentId, items) modifies only the VariantStats of
\* Variants of that Experiment: after an item naming a Variant of another
\* Experiment, that Variant's counters, alpha and beta are what they were.
C25_IngestTouchesOwnVariantsOnly ==
  [][(resp'.op = "ingestMetrics" /\ resp'.status = "ok")
     => \A v \in 1..Len(stats) :
          variants[v].experiment_id # resp'.experimentId => stats'[v] = stats[v]]_vars

====
